---------------------------- MODULE Spec2Model ----------------------------
(***************************************************************************)
(* A model of the quant-assistant backend (backend/src): the option        *)
(* selection pipeline of routers/options.py, the pricing helpers, the      *)
(* Monte Carlo simulators, the trend classifier and the HTTP endpoints.    *)
(*                                                                         *)
(* Numbers are fixed point.  Money (spot, strike, bid, ask, premium,       *)
(* buying power) is counted in units of 1e-5 dollar, volatility in 1e-6,   *)
(* time to expiry in days (T = days/365), d1 and logarithms in 1e-3 and    *)
(* probabilities/deltas in 1e-4.  A float NaN is the value NaN and a       *)
(* raised Python exception is the value Exc.                               *)
(***************************************************************************)
EXTENDS Integers, Sequences, FiniteSets, TLC

VARIABLES
    px,         \* pricing: the arguments and the last pricing function applied
    rng,        \* the state of numpy's process-wide RandomState
    sim,        \* per request thread: its monte_carlo.simulate invocation
    spl,        \* the last simulate_option_pl_samples call and its result
    tr,         \* compute_trend: the close history fetched and the assessment
    scan,       \* POST /scan-ideas: what each symbol would yield, and the response
    yf,         \* whether the yfinance import succeeded at start-up
    lc,         \* the load_chain call of the request being served
    pk,         \* GET /idea: pick_contracts_for_symbol, its inputs and result
    ep,         \* the request an endpoint is serving and the response it gave
    rq,         \* the _req_json call in progress: its loop, sleeps and outcome
    dp          \* data_providers: the clock, the upstream data, the lru caches

vars == <<px, rng, sim, spl, tr, scan, yf, lc, pk, ep, rq, dp>>

-----------------------------------------------------------------------------
(* Float and exception sentinels, and small arithmetic helpers.            *)

NaN == -2000000001
Exc == -2000000002
None == -2000000003

IsNum(x) == x # NaN /\ x # Exc
isfinite(x) == x # NaN

Abs(x) == IF x < 0 THEN -x ELSE x
Max2(a, b) == IF a >= b THEN a ELSE b
Min2(a, b) == IF a <= b THEN a ELSE b
Sign(x) == IF x > 0 THEN 1 ELSE IF x < 0 THEN -1 ELSE 0

\* money units per dollar, and per cent
Cent == 10 * 100
Dollar == 100 * Cent

\* floor of the square root, by bisection of lo <= sqrt(n) < hi
RECURSIVE SqrtBetween(_, _, _)
SqrtBetween(n, lo, hi) ==
    IF hi - lo <= 1 THEN lo
    ELSE LET mid == (lo + hi) \div 2
         IN  IF mid * mid <= n THEN SqrtBetween(n, mid, hi) ELSE SqrtBetween(n, lo, mid)

ISqrt(n) == SqrtBetween(n, 0, Min2(n, 46339) + 1)

\* 1000 * sqrt(days / 365)
SqrtTMilli(days) == ISqrt((days * 1000000) \div 365)

\* 1000 * ln(a / b) for a, b > 0, by ln x = 2 (z + z^3/3), z = (x-1)/(x+1)
LnMilli(a, b) ==
    LET s == Max2(a \div Cent, 1)
        k == Max2(b \div Cent, 1)
        z == ((s - k) * 1000) \div (s + k)
    IN  2 * z + (2 * z * z * z) \div 3000000

\* the standard normal cdf at 0, 0.25, ..., 3.0, in 1e-4
PhiTable == <<5000, 5987, 6915, 7734, 8413, 8944, 9332, 9599, 9772, 9878,
              9938, 9970, 9987>>

PhiPos(x) ==
    IF x >= 4000 THEN 10000
    ELSE IF x >= 3000 THEN 9987 + ((x - 3000) * 13) \div 1000
    ELSE LET i == x \div 250
             lo == PhiTable[i + 1]
             hi == PhiTable[i + 2]
         IN  lo + ((x - i * 250) * (hi - lo)) \div 250

\* |d1| is clamped here: beyond it the cdf is 0 or 1 to four decimals
D1Max == 100 * 1000

-----------------------------------------------------------------------------
(* routers/options.py: Black-Scholes helpers.                              *)

norm_cdf(x) ==
    IF x = NaN THEN NaN
    ELSE IF x >= 0 THEN PhiPos(x) ELSE 10000 - PhiPos(-x)

\* sigma * sqrt(T), in 1e-3
VolMilli(T, sigma) == (sigma * SqrtTMilli(T)) \div 1000000

\* (r + sigma^2 / 2) * T, in 1e-3; r in 1e-6 per year
DriftMilli(T, r, sigma) ==
    (r * T) \div 365000 + (VolMilli(T, sigma) * VolMilli(T, sigma)) \div 2000

\* (r - sigma^2 / 2) * T, in 1e-3
DriftLowMilli(T, r, sigma) ==
    (r * T) \div 365000 - (VolMilli(T, sigma) * VolMilli(T, sigma)) \div 2000

\* num / den with den = sigma * sqrt(T) > 0; a denominator below the
\* resolution gives a quotient of the sign of num beyond every table entry
Quot(num, den) ==
    IF den = 0 THEN Sign(num) * D1Max
    ELSE Max2(-D1Max, Min2(D1Max, (num * 1000) \div den))

bs_d1(S, K, T, r, sigma) ==
    IF S <= 0 \/ K <= 0 \/ sigma <= 0 \/ T <= 0 THEN NaN
    ELSE Quot(LnMilli(S, K) + DriftMilli(T, r, sigma), VolMilli(T, sigma))

bs_d2(dd1, sigma, T) ==
    IF isfinite(dd1) /\ sigma > 0 /\ T > 0 THEN dd1 - VolMilli(T, sigma)
    ELSE NaN

call_delta(S, K, T, r, sigma) == norm_cdf(bs_d1(S, K, T, r, sigma))

put_delta(S, K, T, r, sigma) ==
    LET c == call_delta(S, K, T, r, sigma)
    IN  IF c = NaN THEN NaN ELSE c - 10000

prob_ST_above_x(S, x, T, r, sigma) ==
    IF ~(S > 0 /\ x > 0 /\ T > 0 /\ sigma > 0) THEN NaN
    ELSE norm_cdf(Quot(LnMilli(S, x) + DriftLowMilli(T, r, sigma),
                       VolMilli(T, sigma)))

-----------------------------------------------------------------------------
(* services/options_pricing.py: the BSParams functions.  Python raises     *)
(* ZeroDivisionError on S/K with K = 0 and on a zero denominator, and      *)
(* ValueError on math.log of a non-positive ratio and math.sqrt of a       *)
(* negative T.                                                             *)

d1(p) ==
    IF p.K = 0 THEN Exc
    ELSE IF p.S = 0 \/ (p.S < 0) # (p.K < 0) THEN Exc
    ELSE IF p.T < 0 THEN Exc
    ELSE IF p.sigma = 0 \/ p.T = 0 THEN Exc
    ELSE LET den == VolMilli(p.T, Abs(p.sigma))
             num == LnMilli(Abs(p.S), Abs(p.K)) + DriftMilli(p.T, p.r, Abs(p.sigma))
         IN  Sign(p.sigma) * Quot(num, den)

d2(p) ==
    IF d1(p) = Exc THEN Exc
    ELSE d1(p) - Sign(p.sigma) * VolMilli(p.T, Abs(p.sigma))

prob_finish_above_strike(p) ==
    IF p.T <= 0 \/ p.sigma <= 0 THEN NaN
    ELSE IF d2(p) = Exc THEN Exc
    ELSE norm_cdf(d2(p))

PxIdle == px = [args |-> [S |-> 0, K |-> 0, T |-> 0, r |-> 0, sigma |-> 0],
                fn |-> "none", val |-> 0]

-----------------------------------------------------------------------------
(* numpy's global RandomState, shared by every request of the process.     *)
(* The generator is abstracted to a linear congruential generator of       *)
(* period RngMod: what the model keeps is that a draw is a function of the *)
(* state and moves it on, and that seeding sets the state.                 *)

RngMod == 2 ^ 4
RngNext(s) == (5 * s + 3) % RngMod
RngSeed(seed) == seed % RngMod
\* the normal deviate read off a state, in whole standard deviations
RngZ(s) == (s % 5) - 2

RECURSIVE RngAdvance(_, _)
RngAdvance(s, n) == IF n <= 0 THEN s ELSE RngAdvance(RngNext(s), n - 1)

\* np.random.standard_normal(n) / np.random.normal(0, 1, size=n) from state s
RECURSIVE RngDraws(_, _)
RngDraws(s, n) == IF n <= 0 THEN <<>> ELSE <<RngZ(RngNext(s))>> \o RngDraws(RngNext(s), n - 1)

\* 1000 * exp(x / 1000), to second order
ExpMilli(x) == Max2(1000 + x + (x * x) \div 2000, 0)

RECURSIVE SortAsc(_)
Insert(x, s) ==
    LET RECURSIVE Ins(_)
        Ins(t) == IF t = <<>> THEN <<x>>
                  ELSE IF x <= Head(t) THEN <<x>> \o t
                  ELSE <<Head(t)>> \o Ins(Tail(t))
    IN  Ins(s)
SortAsc(s) == IF s = <<>> THEN <<>> ELSE Insert(Head(s), SortAsc(Tail(s)))

\* np.percentile(a, q), linear interpolation, of a non-empty array
Percentile(a, q) ==
    LET srt == SortAsc(a)
        pos == q * (Len(a) - 1)
        lo == pos \div 100
        hi == Min2(lo + 1, Len(a) - 1)
    IN  srt[lo + 1] + ((pos % 100) * (srt[hi + 1] - srt[lo + 1])) \div 100

\* np.percentile(a, [5, 50, 95]); on an empty array numpy either raises
\* IndexError or returns nans, depending on its version
Percentiles(a) ==
    IF a = <<>> THEN {<<Exc, Exc, Exc>>, <<NaN, NaN, NaN>>}
    ELSE {<<Percentile(a, 5), Percentile(a, 50), Percentile(a, 95)>>}

\* ndarray.mean() of a boolean array, in 1e-4; nan (with a warning) when empty
MeanTrue(b) ==
    IF b = <<>> THEN NaN
    ELSE (Cardinality({i \in 1..Len(b) : b[i]}) * 10000) \div Len(b)

-----------------------------------------------------------------------------
(* services/monte_carlo.py: simulate(cfg).  One invocation per request     *)
(* thread; the seeding and each time step's draw are separate steps, since *)
(* the threads of the server's pool interleave between numpy calls.        *)

MaxDays == 2
MaxPaths == 1
Threads == {1, 2}
DefaultSeed == 42

McBarrier == 101 * Cent
McCfgs == [s0 : {100 * Cent}, mu : {100000}, sigma : {320000}, days : (-1)..MaxDays,
           n_paths : 0..MaxPaths, seed : {DefaultSeed}, barrier : {McBarrier}]

NoCfg == [s0 |-> 0, mu |-> 0, sigma |-> 0, days |-> 0, n_paths |-> 0,
          seed |-> None, barrier |-> None]
NoRes == [raised |-> FALSE, terminal_prices |-> <<>>, prob_touch |-> None]
SimIdle == [pc |-> "idle", cfg |-> NoCfg, t |-> 0, paths |-> <<>>, touched |-> <<>>,
            res |-> NoRes]

\* sqrt(dt) = sqrt(1/252), in 1e-3
SqrtDtMilli == ISqrt(1000000 \div 252)

\* (mu - sigma^2/2) dt + sigma sqrt(dt) z, in 1e-3; mu and sigma in 1e-6
McExponent(cfg, z) ==
    (cfg.mu - ((cfg.sigma \div 1000) * (cfg.sigma \div 1000)) \div 2) \div 252000
    + ((cfg.sigma * SqrtDtMilli) \div 1000000) * z

Touches(cfg, price) ==
    IF cfg.barrier = None THEN FALSE
    ELSE IF cfg.barrier >= cfg.s0 THEN price >= cfg.barrier
    ELSE price <= cfg.barrier

SimResult(cfg, paths, touched) ==
    [raised |-> FALSE, terminal_prices |-> paths,
     prob_touch |-> IF cfg.barrier = None THEN None ELSE MeanTrue(touched)]

SimRaised == [raised |-> TRUE, terminal_prices |-> <<>>, prob_touch |-> None]

\* np.zeros((n_paths, steps+1)) and paths[:,0] = s0
AllocRaises(cfg) == cfg.n_paths < 0 \/ cfg.days + 1 <= 0

\* The option P/L requests and the simulate requests of one run are explored
\* apart: a run serves the one kind or the other.
SimulateCall(th, cfg) ==
    /\ ~spl.called
    /\ sim[th].pc = "idle"
    /\ sim' = [sim EXCEPT ![th] = [SimIdle EXCEPT !.pc = "seed", !.cfg = cfg]]
    /\ UNCHANGED <<px, rng, spl, tr, scan, yf, lc, pk, ep, rq, dp>>

\* if cfg.seed is not None: np.random.seed(cfg.seed); then the allocation
SeededState(cfg, s) == IF cfg.seed # None THEN RngSeed(cfg.seed) ELSE s

SimSeed(th) ==
    LET cfg == sim[th].cfg
        p0 == [i \in 1..cfg.n_paths |-> cfg.s0]
        t0 == [i \in 1..cfg.n_paths |-> Touches(cfg, cfg.s0)]
    IN  /\ sim[th].pc = "seed"
        /\ rng' = SeededState(cfg, rng)
        /\ sim' = [sim EXCEPT ![th] =
              IF AllocRaises(cfg) THEN [@ EXCEPT !.pc = "done", !.res = SimRaised]
              ELSE IF cfg.days = 0
                   THEN [@ EXCEPT !.pc = "done", !.paths = p0, !.touched = t0,
                                  !.res = SimResult(cfg, p0, t0)]
                   ELSE [@ EXCEPT !.pc = "draw", !.t = 1, !.paths = p0, !.touched = t0]]
        /\ UNCHANGED <<px, spl, tr, scan, yf, lc, pk, ep, rq, dp>>

\* one pass of the loop: z = standard_normal(n_paths); paths[:,t] = ...
SimDraw(th) ==
    LET cfg == sim[th].cfg
        z == RngDraws(rng, cfg.n_paths)
        p1 == [i \in 1..cfg.n_paths |->
                 (sim[th].paths[i] * ExpMilli(McExponent(cfg, z[i]))) \div 1000]
        t1 == [i \in 1..cfg.n_paths |-> sim[th].touched[i] \/ Touches(cfg, p1[i])]
    IN  /\ sim[th].pc = "draw"
        /\ rng' = RngAdvance(rng, cfg.n_paths)
        /\ sim' = [sim EXCEPT ![th] =
              IF sim[th].t = cfg.days
              THEN [@ EXCEPT !.pc = "done", !.paths = p1, !.touched = t1,
                             !.res = SimResult(cfg, p1, t1)]
              ELSE [@ EXCEPT !.t = @ + 1, !.paths = p1, !.touched = t1]]
        /\ UNCHANGED <<px, spl, tr, scan, yf, lc, pk, ep, rq, dp>>

-----------------------------------------------------------------------------
(* routers/options.py: simulate_option_pl_samples, one atomic call: its    *)
(* single draw is one numpy call.  estimate_mu_sigma_daily is the          *)
(* provider's answer: (None, None) or a daily drift and volatility.        *)

MaxSplPaths == 3
SplArgs == [S : {0, 100 * Cent}, K : {0, 100 * Cent}, premium : {2 * Cent},
            T_days : {-5, 0, 5}, otype : {"CALL", "PUT"}, n_paths : 0..MaxSplPaths,
            hist : BOOLEAN]

\* the estimate when there is history: mu_d and sig_d, in 1e-6 per day
MuDaily == 5 * 100
SigDaily == 20 * 1000

SplNone == [kind |-> "none", pl_p5 |-> None, pl_p50 |-> None, pl_p95 |-> None,
            prob_profit |-> None]
SplRaised == [SplNone EXCEPT !.kind = "raise"]

SplIdle == [called |-> FALSE,
            args |-> [S |-> 0, K |-> 0, premium |-> 0, T_days |-> 0, otype |-> "CALL",
                      n_paths |-> 0, hist |-> FALSE],
            res |-> SplNone]

SplGuard(a) == ~a.hist \/ a.S <= 0 \/ a.K <= 0 \/ a.T_days <= 0

SplPayoff(a, z) ==
    LET volT == (SigDaily * ISqrt(a.T_days * 1000000)) \div 1000000
        drift == ((MuDaily - ((SigDaily \div 1000) * (SigDaily \div 1000)) \div 2)
                  * a.T_days) \div 1000
        ST == (a.S * ExpMilli(drift + volT * z)) \div 1000
    IN  IF a.otype = "CALL" THEN Max2(ST - a.K, 0) - a.premium
        ELSE Max2(a.K - ST, 0) - a.premium

\* the results the call can produce from generator state s
simulate_option_pl_samples(a, s) ==
    IF SplGuard(a) THEN {SplNone}
    ELSE IF a.n_paths < 0 THEN {SplRaised}
    ELSE LET z == RngDraws(s, a.n_paths)
             payoff == [i \in 1..a.n_paths |-> SplPayoff(a, z[i])]
             wins == [i \in 1..a.n_paths |-> payoff[i] > 0]
         IN  { IF q[1] = Exc THEN SplRaised
               ELSE [kind |-> "dict", pl_p5 |-> q[1], pl_p50 |-> q[2], pl_p95 |-> q[3],
                     prob_profit |-> MeanTrue(wins)] : q \in Percentiles(payoff) }

OptionPl ==
    \E a \in SplArgs : \E r \in simulate_option_pl_samples(a, rng) :
        /\ \A th \in Threads : sim[th].pc = "idle"
        /\ spl' = [called |-> TRUE, args |-> a, res |-> r]
        /\ rng' = IF SplGuard(a) THEN rng ELSE RngAdvance(rng, a.n_paths)
        /\ UNCHANGED <<px, sim, tr, scan, yf, lc, pk, ep, rq, dp>>

\* routers/allocation.py: one np.random.dirichlet(np.ones(n)) of the loop
FrontierAssets == 2
DirichletDraw ==
    /\ rng' = RngAdvance(rng, FrontierAssets)
    /\ UNCHANGED <<px, sim, spl, tr, scan, yf, lc, pk, ep, rq, dp>>

-----------------------------------------------------------------------------
(* routers/options.py: compute_trend.  Closes are whole price units; the   *)
(* exponential averages are kept in 1e-4 of a unit, RSI in 1e-2 and the    *)
(* score in 1e-4.                                                          *)

MinHistory == 50
MaxExtra == 10
EmaScale == 10 * 1000

HistKinds == {"none", "flat", "up", "down", "zigzag", "jump", "drop"}
HistParams == [kind : HistKinds, base : {100, 150}, k : 1..3,
               len : {MinHistory - 1, MinHistory, MinHistory + MaxExtra}]

\* fetch_hist: the Close column the provider returned (None: no yfinance,
\* an exception or an empty frame)
Closes(h) ==
    [i \in 1..h.len |->
        CASE h.kind = "up" -> h.base + h.k * i
          [] h.kind = "down" -> h.base + h.k * (h.len - i)
          [] h.kind = "zigzag" -> h.base + h.k * (i % 2)
          [] h.kind = "jump" -> IF i > h.len - 5 THEN h.base + 10 * h.k ELSE h.base
          [] h.kind = "drop" -> IF i > h.len - 5 THEN h.base - 10 * h.k ELSE h.base
          [] OTHER -> h.base]

\* series.ewm(alpha=num/den, adjust=False).mean().iloc[n-1] of a scaled series
RECURSIVE EwmAt(_, _, _, _)
EwmAt(x, n, num, den) ==
    IF n = 1 THEN x[1]
    ELSE ((den - num) * EwmAt(x, n - 1, num, den) + num * x[n]) \div den

EwmLast(x, num, den) == EwmAt(x, Len(x), num, den)

Scaled(x) == [i \in 1..Len(x) |-> x[i] * EmaScale]

\* ema(series, span): alpha = 2 / (span + 1)
ema(x, span) == EwmLast(Scaled(x), 2, span + 1)

Diff(x) == [i \in 1..(Len(x) - 1) |-> x[i + 1] - x[i]]
ClipUp(d) == [i \in 1..Len(d) |-> Max2(d[i], 0)]
ClipDown(d) == [i \in 1..Len(d) |-> Max2(-d[i], 0)]

\* rs = (roll_up/roll_down).replace([inf,-inf], nan).fillna(0.0);
\* rsi = 100 - 100/(1+rs), which is 100*up/(up+down) for a finite rs
Rsi14(x) ==
    LET roll_up == EwmLast(Scaled(ClipUp(Diff(x))), 1, 14)
        roll_down == EwmLast(Scaled(ClipDown(Diff(x))), 1, 14)
    IN  IF roll_down = 0 THEN 0
        ELSE (10000 * roll_up) \div (roll_up + roll_down)

TrendOf(score) ==
    IF score >= 5500 THEN "up" ELSE IF score <= 3500 THEN "down" ELSE "neutral"

compute_trend(h) ==
    IF h.kind = "none" \/ h.len < MinHistory
    THEN [trend |-> "neutral", score |-> 0, rsi |-> None]
    ELSE LET x == Closes(h)
             rsi_val == Rsi14(x)
             score == (IF ema(x, 20) > ema(x, 50) THEN 4000 ELSE 0)
                      + (IF x[Len(x)] > x[Len(x) - 10] THEN 3000 ELSE 0)
                      + (3 * Max2(0, 5000 - Abs(rsi_val - 5000))) \div 5
         IN  [trend |-> TrendOf(score), score |-> score, rsi |-> rsi_val]

TrIdle == [hist |-> [kind |-> "none", base |-> 100, k |-> 1, len |-> MinHistory],
           done |-> FALSE, res |-> [trend |-> "neutral", score |-> 0, rsi |-> None]]

ComputeTrend ==
    /\ ~tr.done
    /\ tr' = [tr EXCEPT !.done = TRUE, !.res = compute_trend(tr.hist)]
    /\ UNCHANGED <<px, rng, sim, spl, scan, yf, lc, pk, ep, rq, dp>>

-----------------------------------------------------------------------------
(* routers/options.py: raw chain rows, enrich_contracts, confidence_score. *)
(* An expiry is its distance from today in days (ISO dates order as their  *)
(* days do); BadDate is an expiry string that does not parse.              *)

BadDate == -1000

Row(K, bid, ask, last, oi, vol, iv) ==
    [strike |-> K, bid |-> bid, ask |-> ask, lastPrice |-> last,
     openInterest |-> oi, volume |-> vol, impliedVolatility |-> iv]

\* the rows a provider can put in a chain: quoted near the target delta, at
\* the money, last-trade only below the rounding step, thin, without implied
\* volatility, with a NaN open interest, without a strike
RowNear == Row(105 * Dollar, 100 * Cent, 110 * Cent, 105 * Cent, 600, 300, 300000)
RowAtm == Row(100 * Dollar, 240 * Cent, 260 * Cent, 250 * Cent, 250, 60, 300000)
RowTiny == Row(105 * Dollar, 0, 0, 4, 60, 0, 300000)
RowThin == Row(105 * Dollar, 100 * Cent, 110 * Cent, 105 * Cent, 10, 5, 300000)
RowNoIv == Row(100 * Dollar, 240 * Cent, 260 * Cent, 250 * Cent, 250, 60, 0)
RowNaNoi == Row(105 * Dollar, 100 * Cent, 110 * Cent, 105 * Cent, NaN, 300, 300000)
RowNoStrike == Row(NaN, 100 * Cent, 110 * Cent, 105 * Cent, 600, 300, 300000)

RowPool == {RowNear, RowAtm, RowTiny, RowThin, RowNoIv, RowNaNoi, RowNoStrike}

\* x.get(f) or 0.0: None and 0 give 0.0, a NaN is truthy and stays
OrZero(x) == IF x = None THEN 0 ELSE x

\* float comparison: every comparison with NaN is False
Gt0(x) == x # NaN /\ x > 0

\* round(x, 4) of a float counted in 1e-5: to the nearest 1e-4, ties to even
Round4(x) ==
    IF x = NaN THEN NaN
    ELSE LET q == x \div 10
             r == x % 10
         IN  IF r < 5 THEN 10 * q
             ELSE IF r > 5 THEN 10 * (q + 1)
             ELSE IF q % 2 = 0 THEN 10 * q ELSE 10 * (q + 1)

\* premium = (bid+ask)/2.0 if (bid>0 or ask>0) else last
Premium(bid, ask, last) ==
    IF Gt0(bid) \/ Gt0(ask)
    THEN IF bid = NaN \/ ask = NaN THEN NaN ELSE (bid + ask) \div 2
    ELSE last

\* int(rrow.get("openInterest") or 0) raises ValueError on a NaN
IntRaises(row) == row.openInterest = NaN \/ row.volume = NaN

\* the guard of line 247
EmitGuard(S, K, premium) == isfinite(S) /\ Gt0(K) /\ Gt0(premium)

\* sigma = max(iv_raw, 1e-6)
SigmaOf(iv_raw) == IF iv_raw = NaN THEN NaN ELSE Max2(iv_raw, 1)

\* T = max(days/365, 1/365), in days
TDays(dte) == Max2(dte, 1)

NoDelta == None

Enriched(S, dte, row, is_call) ==
    LET K == OrZero(row.strike)
        premium == Premium(OrZero(row.bid), OrZero(row.ask), OrZero(row.lastPrice))
        sigma == SigmaOf(OrZero(row.impliedVolatility))
        cd == call_delta(S, K, TDays(dte), 0, sigma)
        dlt == IF is_call \/ cd = NaN THEN cd ELSE cd - 10000
        breakeven == IF is_call THEN K + premium ELSE K - premium
        above == prob_ST_above_x(S, breakeven, TDays(dte), 0, sigma)
        p_profit == IF is_call \/ above = NaN THEN above ELSE 10000 - above
    IN  [expiry |-> dte, type |-> IF is_call THEN "CALL" ELSE "PUT",
         strike |-> Round4(K), mid_price |-> Round4(premium), iv |-> sigma,
         delta |-> IF isfinite(dlt) THEN dlt ELSE NoDelta,
         breakeven |-> Round4(breakeven),
         oi |-> OrZero(row.openInterest), volume |-> OrZero(row.volume),
         chance_profit |-> IF isfinite(p_profit) THEN p_profit ELSE None]

Emits(S, row) ==
    EmitGuard(S, OrZero(row.strike),
              Premium(OrZero(row.bid), OrZero(row.ask), OrZero(row.lastPrice)))

\* the loop of lines 237-259 over rows none of which makes int() raise
RECURSIVE EnrichRows(_, _, _, _)
EnrichRows(S, dte, rows, is_call) ==
    IF rows = <<>> THEN <<>>
    ELSE LET rest == EnrichRows(S, dte, Tail(rows), is_call)
         IN  IF Emits(S, Head(rows))
             THEN <<Enriched(S, dte, Head(rows), is_call)>> \o rest
             ELSE rest

\* enrich_contracts raises (ValueError from int()) instead of returning
EnrichRaises(dte, rows) ==
    rows # <<>> /\ dte # BadDate /\ \E i \in 1..Len(rows) : IntRaises(rows[i])

\* enrich_contracts(S, expiry_iso, rows, is_call): the list it returns
enrich_contracts(S, dte, rows, is_call) ==
    IF rows = <<>> \/ dte = BadDate THEN <<>>
    ELSE EnrichRows(S, dte, rows, is_call)

\* c.get("iv") is truthy
HasIv(c) == c.iv # 0

confidence_score(c) ==
    LET premium100 == c.mid_price * 100
        score == (IF c.oi >= 500 THEN 35 ELSE IF c.oi >= 200 THEN 25
                  ELSE IF c.oi >= 50 THEN 15 ELSE 0)
               + (IF c.volume >= 200 THEN 20 ELSE IF c.volume >= 50 THEN 12
                  ELSE IF c.volume >= 10 THEN 6 ELSE 0)
               + (IF HasIv(c) THEN 15 ELSE 0)
               + (IF c.delta # NoDelta /\ 1000 <= Abs(c.delta) /\ Abs(c.delta) <= 6000
                  THEN 15 ELSE 0)
               + (IF premium100 <= 300 * Dollar THEN 10
                  ELSE IF premium100 <= 800 * Dollar THEN 6 ELSE 2)
    IN  Min2(100, score)

-----------------------------------------------------------------------------
(* routers/options.py: pick_contracts_for_symbol, as a function of the     *)
(* book load_chain returned, the trend, the buying power and the result of *)
(* simulate_option_pl_samples for the chosen contract.                     *)

NoNote == "<none>"
NoteRateLimited == "Rate limited by data source (HTTP 429). Please wait ~1-2 minutes or reduce refresh."
NoteYfError == "yfinance error: <type>"
NoteProviderError == "provider error: <type>"
NoteNoExpiries == "No expiries in requested window."
NoteNoContracts == "No affordable/liquid contracts in DTE window."

TargetDelta == 3000
MinDte == 21
MaxDte == 45

\* book.get("price") or 0.0
SpotOf(book) == IF book.price = None \/ book.price = 0 THEN 0 ELSE book.price

\* book.get("note") or <default>
NoteOr(book, default) == IF book.note = NoNote THEN default ELSE book.note

Affordable(c, bp) == ~(c.mid_price * 100 > bp)
LiquidRelaxed(c) == TRUE

Liquid(c) == ~(c.oi < 50 /\ c.volume < 10)
HasDelta(c) == c.delta # NoDelta

\* the three filters of the candidate loop
Survives(c, bp) == Affordable(c, bp) /\ Liquid(c) /\ HasDelta(c)

Candidate(c, dte) ==
    [expiry |-> c.expiry, type |-> c.type, strike |-> c.strike,
     mid_price |-> c.mid_price, iv |-> c.iv, delta |-> c.delta,
     breakeven |-> c.breakeven, oi |-> c.oi, volume |-> c.volume,
     chance_profit |-> c.chance_profit,
     delta_diff |-> Abs(Abs(c.delta) - TargetDelta),
     conf |-> confidence_score(c), dte |-> dte]

PreferredRowsBothSides(prefer, calls, puts) == calls \o puts

\* rows of one chain for the preferred side
PreferredRows(prefer, calls, puts) ==
    IF prefer = "up" THEN calls
    ELSE IF prefer = "down" THEN puts
    ELSE calls \o puts

RECURSIVE Flatten(_)
Flatten(ss) == IF ss = <<>> THEN <<>> ELSE Head(ss) \o Flatten(Tail(ss))

\* one of the enrich_contracts calls of the loop over the chains raises
AnyEnrichRaises(chains) ==
    \E i \in 1..Len(chains) :
        EnrichRaises(chains[i].expiry, chains[i].calls)
        \/ EnrichRaises(chains[i].expiry, chains[i].puts)

\* what enrich_contracts returned for every chain of the book: calls, puts
EmittedBy(S, chains) ==
    [i \in 1..Len(chains) |->
        <<enrich_contracts(S, chains[i].expiry, chains[i].calls, TRUE),
          enrich_contracts(S, chains[i].expiry, chains[i].puts, FALSE)>>]

CandidatesOf(per, chains, prefer, bp) ==
    Flatten([i \in 1..Len(chains) |->
               LET rows == PreferredRows(prefer, per[i][1], per[i][2])
                   kept == SelectSeq(rows, LAMBDA c : Survives(c, bp))
               IN  [j \in 1..Len(kept) |-> Candidate(kept[j], chains[i].dte)]])

KeyLessLowConfidenceFirst(x, y) ==
    \/ x.delta_diff < y.delta_diff
    \/ x.delta_diff = y.delta_diff /\ x.conf < y.conf
    \/ x.delta_diff = y.delta_diff /\ x.conf = y.conf /\ x.expiry < y.expiry

\* the sort key (delta_diff, -conf, expiry)
KeyLess(x, y) ==
    \/ x.delta_diff < y.delta_diff
    \/ x.delta_diff = y.delta_diff /\ -x.conf < -y.conf
    \/ x.delta_diff = y.delta_diff /\ x.conf = y.conf /\ x.expiry < y.expiry

\* sorted(cands, key=...)[0]: the first candidate no other is strictly before
BestOf(cands) ==
    cands[CHOOSE i \in 1..Len(cands) :
            /\ \A j \in 1..Len(cands) : ~KeyLess(cands[j], cands[i])
            /\ \A j \in 1..(i - 1) : KeyLess(cands[i], cands[j])]

NoContract == [expiry |-> BadDate, type |-> "", strike |-> 0, mid_price |-> 0, iv |-> 0,
               delta |-> NoDelta, breakeven |-> 0, oi |-> 0, volume |-> 0,
               chance_profit |-> None, delta_diff |-> 0, conf |-> 0, dte |-> 0]

PickResult(kind, note, S, best, simres, emitted) ==
    [kind |-> kind, note |-> note, under_price |-> S, candidates |-> <<>>,
     suggestion |-> best, confidence |-> best.conf,
     cost_estimate |-> best.mid_price * 100, sim |-> simres,
     emitted |-> emitted]

pick_contracts_for_symbol(book, prefer, bp, simres) ==
    LET S == SpotOf(book)
        per == EmittedBy(S, book.chains)
    IN  IF book.chains = <<>>
        THEN PickResult("nochain", book.note, S, NoContract, "none", <<>>)
        ELSE IF AnyEnrichRaises(book.chains)
        THEN PickResult("raise", NoNote, S, NoContract, "none", <<>>)
        ELSE LET cands == CandidatesOf(per, book.chains, prefer, bp)
                 emitted == Flatten([i \in 1..Len(per) |-> per[i][1] \o per[i][2]])
             IN  IF cands = <<>>
                 THEN PickResult("nocand", NoteOr(book, NoteNoContracts), S,
                                 NoContract, "none", emitted)
                 ELSE PickResult("idea", book.note, S, BestOf(cands), simres, emitted)

-----------------------------------------------------------------------------
(* routers/options.py: load_chain, one step per provider call, and         *)
(* _v7_options_book.  GET /idea starts a load_chain call and finishes with *)
(* pick_contracts_for_symbol on the book it returned.                      *)

MaxRows == 2

\* tkr.options as the provider lists it: nothing, one expiry in the window,
\* an unparseable and two out-of-window dates around one in the window, two
\* expiries in the window
ExpiryLists == {<<>>, <<30>>, <<BadDate, 10, 30, 60>>, <<25, 30>>}

\* expirationDate of the option entries of a v7 answer
V7ExpiryLists == {<<30>>, <<BadDate, 10>>, <<10, 30>>}

InWindow(dte) == dte # BadDate /\ MinDte <= dte /\ dte <= MaxDte

ValidExpiriesAnyDate(expiries) == SelectSeq(expiries, LAMBDA e : e # BadDate)

\* lines 127-132: the expiries that parse and fall in [min_dte, max_dte]
ValidExpiries(expiries) == SelectSeq(expiries, InWindow)

RowSeqs(pool, n) == UNION {[1..k -> pool] : k \in 0..n}

\* the calls and puts of one expiry, at most `budget` rows together
ChainRows(pool, budget) ==
    {cp \in RowSeqs(pool, budget) \X RowSeqs(pool, budget) :
        Len(cp[1]) + Len(cp[2]) <= budget}

RECURSIVE RowsIn(_)
RowsIn(chains) ==
    IF chains = <<>> THEN 0
    ELSE Len(Head(chains).calls) + Len(Head(chains).puts) + RowsIn(Tail(chains))

Chain(e, dte, calls, puts) == [expiry |-> e, dte |-> dte, calls |-> calls, puts |-> puts]

Book(price, expiries, chains, note) ==
    [price |-> price, expiries |-> expiries, chains |-> chains, note |-> note]

NoBook == Book(None, <<>>, <<>>, NoNote)

Raised == [exc |-> "Exception"]

\* a raw v7 row without a strike: float(None) raises in norm
RowMissingStrike == Row(None, 100 * Cent, 110 * Cent, 105 * Cent, 600, 300, 300000)

V7RowPool == RowPool \cup {RowMissingStrike}

\* norm (lines 97-112): rows whose conversion raises are dropped
NormRow(r) ==
    Row(r.strike, OrZero(r.bid), OrZero(r.ask), OrZero(r.lastPrice),
        OrZero(r.openInterest), OrZero(r.volume), OrZero(r.impliedVolatility))

norm(rows) ==
    LET ok == SelectSeq(rows, LAMBDA r : r.strike # None /\ ~IntRaises(r))
    IN  [i \in 1..Len(ok) |-> NormRow(ok[i])]

\* the option entries of a v7 answer for the listed expirationDates
RECURSIVE OptionsWith(_, _)
OptionsWith(elist, budget) ==
    IF elist = <<>> THEN {<<>>}
    ELSE UNION {{<<Chain(Head(elist), 0, cp[1], cp[2])>> \o rest :
                    rest \in OptionsWith(Tail(elist), budget - Len(cp[1]) - Len(cp[2]))} :
                 cp \in ChainRows(V7RowPool, budget)}

\* what _req_json and the body it returned give _v7_options_book: the
\* request raising after its retries (the last error a 429 or another one),
\* a body that is not an object, an empty result, a result
V7Answers ==
    [kind : {"raise429", "raiseOther", "malformed", "empty"},
     price : {None}, options : {<<>>}]
    \cup [kind : {"ok"}, price : {None, 100 * Dollar},
          options : UNION {OptionsWith(el, MaxRows) : el \in V7ExpiryLists}]

V7Raises(kind) == kind \in {"raise429", "raiseOther", "malformed"}

\* lines 84-115: entries without a usable expirationDate are skipped
v7_options_book(answer) ==
    IF answer.kind = "empty" THEN [price |-> None, expiries |-> <<>>, chains |-> <<>>]
    ELSE LET usable == SelectSeq(answer.options, LAMBDA o : o.expiry # BadDate)
         IN  [price |-> answer.price,
              expiries |-> [i \in 1..Len(usable) |-> usable[i].expiry],
              chains |-> [i \in 1..Len(usable) |->
                            Chain(usable[i].expiry, Max2(usable[i].expiry, 0),
                                  norm(usable[i].calls), norm(usable[i].puts))]]

\* the handlers of lines 157-161 and 181-187
YfHandler(kind) == IF kind = "raise429" THEN NoteRateLimited ELSE NoteYfError

V7HandlerReraises(kind) == Raised

V7Handler(kind) ==
    Book(None, <<>>, <<>>,
         IF kind = "raise429" THEN NoteRateLimited ELSE NoteProviderError)

\* lines 163-187: the fallback, given the note the yfinance path left
LoadChainV7(note, answer) ==
    IF V7Raises(answer.kind) THEN V7Handler(answer.kind)
    ELSE LET v7 == v7_options_book(answer)
             chains_filt == SelectSeq(v7.chains, LAMBDA ch : InWindow(ch.expiry))
             expiries == [i \in 1..Len(chains_filt) |-> chains_filt[i].expiry]
         IN  Book(v7.price, expiries,
                  [i \in 1..Len(chains_filt) |->
                     Chain(chains_filt[i].expiry, chains_filt[i].expiry,
                           chains_filt[i].calls, chains_filt[i].puts)],
                  IF expiries = <<>>
                  THEN (IF note = NoNote THEN NoteNoExpiries ELSE note)
                  ELSE note)

LcIdle == [pc |-> "idle", note |-> NoNote, valid |-> <<>>, S |-> None,
           chains |-> <<>>, i |-> 1, yfo |-> "none", v7 |-> "none", ret |-> NoBook]

\* compute_trend(symbol)["trend"] over the histories of the trend model
Trends == {compute_trend(h).trend : h \in HistParams}

\* whether simulate_option_pl_samples returned a result for the best contract
SimKinds == {"none", "dict"}

BuyingPowers == {0, 150 * Dollar, 1000 * Dollar}

\* a load_chain(symbol, min_dte, max_dte) call, by its window
Window(min_dte, max_dte) == <<min_dte, max_dte>>

PkIdle == [pc |-> "idle", bp |-> 0, prefer |-> "neutral", windows |-> <<>>,
           res |-> PickResult("none", NoNote, 0, NoContract, "none", <<>>)]

\* GET /idea?symbol=..&buying_power=bp: pick_contracts_for_symbol calls load_chain
Idea(bp) ==
    /\ pk.pc = "idle"
    /\ pk' = [pk EXCEPT !.pc = "loading", !.bp = bp,
                       !.windows = Append(@, Window(MinDte, MaxDte))]
    /\ lc' = [LcIdle EXCEPT !.pc = IF yf THEN "options" ELSE "v7",
                            !.yfo = IF yf THEN "none" ELSE "absent"]
    /\ UNCHANGED <<px, rng, sim, spl, tr, scan, yf, ep, rq, dp>>

\* the fall-through to the v7 fallback: the locals of the yfinance path die
ToV7(note, yfo) == [LcIdle EXCEPT !.pc = "v7", !.note = note, !.yfo = yfo]

\* yf.Ticker(symbol) and tkr.options (lines 124-132, handler 157-161)
YfOptions ==
    /\ lc.pc = "options"
    /\ \/ \E kind \in {"raise429", "raiseOther"} :
             lc' = ToV7(YfHandler(kind), "raised")
       \/ \E expiries \in ExpiryLists :
             lc' = [lc EXCEPT !.pc = "price", !.valid = ValidExpiries(expiries)]
    /\ UNCHANGED <<px, rng, sim, spl, tr, scan, yf, pk, ep, rq, dp>>

\* the price (lines 134-141): fast_info, else the last close, else None
YfPrice ==
    /\ lc.pc = "price"
    /\ \E S \in {None, NaN, 100 * Dollar} :
          lc' = IF lc.valid = <<>> THEN ToV7(lc.note, "nochains")
                ELSE [lc EXCEPT !.pc = "chain", !.S = S, !.i = 1]
    /\ UNCHANGED <<px, rng, sim, spl, tr, scan, yf, pk, ep, rq, dp>>

\* lines 153-156 once the loop over the valid expiries is over
AfterChainsAlwaysReturns(l) ==
    IF l.i <= Len(l.valid) THEN l
    ELSE [l EXCEPT !.pc = "ret", !.yfo = "ok",
                   !.ret = Book(l.S, l.valid, l.chains, l.note)]

AfterChains(l) ==
    IF l.i <= Len(l.valid) THEN l
    ELSE IF l.chains # <<>>
    THEN [l EXCEPT !.pc = "ret", !.yfo = "ok",
                   !.ret = Book(l.S, l.valid, l.chains, l.note)]
    ELSE ToV7(l.note, "nochains")

\* tkr.option_chain(e_str) for the next valid expiry (lines 143-152)
YfOptionChain ==
    /\ lc.pc = "chain"
    /\ lc.i <= Len(lc.valid)
    /\ \/ lc' = AfterChains([lc EXCEPT !.note = NoteRateLimited, !.i = @ + 1])
       \/ lc' = AfterChains([lc EXCEPT !.i = @ + 1])
       \/ \E cp \in ChainRows(RowPool, MaxRows - RowsIn(lc.chains)) :
             lc' = AfterChains(
                     [lc EXCEPT !.i = @ + 1,
                                !.chains = Append(@, Chain(lc.valid[lc.i], lc.valid[lc.i],
                                                           cp[1], cp[2]))])
    /\ UNCHANGED <<px, rng, sim, spl, tr, scan, yf, pk, ep, rq, dp>>

\* the Yahoo v7 fallback (lines 163-187)
V7Request ==
    /\ lc.pc = "v7"
    /\ \E answer \in V7Answers :
          LET r == LoadChainV7(lc.note, answer)
          IN  lc' = [LcIdle EXCEPT !.pc = IF "exc" \in DOMAIN r THEN "raised" ELSE "ret",
                                   !.yfo = lc.yfo, !.v7 = answer.kind, !.ret = r]
    /\ UNCHANGED <<px, rng, sim, spl, tr, scan, yf, pk, ep, rq, dp>>

\* load_chain returned: the rest of pick_contracts_for_symbol (lines 314-381)
PickFinish ==
    /\ pk.pc = "loading"
    /\ lc.pc \in {"ret", "raised"}
    /\ \E prefer \in Trends, simkind \in SimKinds :
          pk' = [pk EXCEPT !.pc = "done", !.prefer = prefer,
                           !.res = IF lc.pc = "raised"
                                   THEN PickResult("raise", NoNote, 0, NoContract, "none", <<>>)
                                   ELSE pick_contracts_for_symbol(lc.ret, prefer, pk.bp,
                                                                  simkind)]
    /\ UNCHANGED <<px, rng, sim, spl, tr, scan, yf, lc, ep, rq, dp>>

-----------------------------------------------------------------------------
(* routers/options.py: POST /scan-ideas.  What pick_contracts_for_symbol   *)
(* answers for a symbol is the provider's doing: no suggestion, an         *)
(* exception, or an idea with its confidence, the median simulated P/L     *)
(* (NoSim: sim is None) and the book's note.                               *)

UniverseLen == 7
GatherCap == 6
TopIdeas == 3
NoSim == -9999

Universe == [i \in 1..UniverseLen |-> i]

Outcome(kind, conf, med, note) ==
    [kind |-> kind, confidence |-> conf, med |-> med, note |-> note]
PickOutcomes == {Outcome("none", 0, NoSim, "No expiries in requested window."),
                 Outcome("raise", 0, NoSim, ""),
                 Outcome("idea", 40, 50, "Rate limited"),
                 Outcome("idea", 90, 50, ""),
                 Outcome("idea", 90, NoSim, "")}

IdeaOf(sym, o) ==
    [symbol |-> sym, confidence |-> o.confidence, med |-> o.med, note |-> o.note]

\* the loop of scan_ideas from position i on, with the ideas gathered so far
RECURSIVE Gather(_, _, _)
Gather(world, i, ideas) ==
    IF i > Len(Universe) THEN ideas
    ELSE LET res == world[Universe[i]]
         IN  IF res.kind = "raise" THEN Gather(world, i + 1, ideas)
             ELSE LET got == IF res.kind = "idea"
                             THEN Append(ideas, IdeaOf(Universe[i], res))
                             ELSE ideas
                  IN  IF Len(got) >= GatherCap THEN got
                      ELSE Gather(world, i + 1, got)

\* rank_key(x) < rank_key(y) for the key (-conf, -med)
RankBeforeAscending(x, y) ==
    \/ x.confidence < y.confidence
    \/ x.confidence = y.confidence /\ x.med < y.med

RankBefore(x, y) ==
    \/ -x.confidence < -y.confidence
    \/ -x.confidence = -y.confidence /\ -x.med < -y.med

\* sorted(ideas, key=rank_key): stable
RECURSIVE SortIdeas(_)
InsertIdea(x, s) ==
    LET RECURSIVE Ins(_)
        Ins(t) == IF t = <<>> THEN <<x>>
                  ELSE IF RankBefore(Head(t), x) \/ ~RankBefore(x, Head(t))
                       THEN <<Head(t)>> \o Ins(Tail(t))
                       ELSE <<x>> \o t
    IN  Ins(s)
SortIdeas(s) ==
    IF s = <<>> THEN <<>>
    ELSE InsertIdea(s[Len(s)], SortIdeas(SubSeq(s, 1, Len(s) - 1)))

Take(s, n) == SubSeq(s, 1, Min2(n, Len(s)))

FirstNote(ideas) ==
    LET noted == {i \in 1..Len(ideas) : ideas[i].note # ""}
    IN  IF noted = {} THEN ""
        ELSE ideas[CHOOSE i \in noted : \A j \in noted : i <= j].note

scan_ideas(world) ==
    LET ideas == Gather(world, 1, <<>>)
    IN  [ideas |-> Take(SortIdeas(ideas), TopIdeas), note |-> FirstNote(ideas)]

ScanIdle == [world |-> [i \in 1..UniverseLen |-> Outcome("none", 0, NoSim, "")],
             done |-> FALSE, resp |-> [ideas |-> <<>>, note |-> ""]]

ScanIdeas ==
    /\ ~scan.done
    /\ scan' = [scan EXCEPT !.done = TRUE, !.resp = scan_ideas(scan.world)]
    /\ UNCHANGED <<px, rng, sim, spl, tr, yf, lc, pk, ep, rq, dp>>

-----------------------------------------------------------------------------
(* The pricing specification: arguments drawn from a grid that holds the   *)
(* degenerate values, and one action per pricing function.                 *)

PxSpots == {-100 * Dollar, 0, 90 * Dollar, 100 * Dollar, 110 * Dollar}
PxSigmas == {-300000, 0, 1, 300000, 600000}
PxDays == {-30, 0, 1, 30, 365}
PxRates == {0, 50000}

PricingFns == {"bs_d1", "bs_d2", "call_delta", "put_delta", "prob_ST_above_x",
               "d1", "d2", "prob_finish_above_strike"}

PxArgs == [S : PxSpots, K : PxSpots, T : PxDays, r : PxRates, sigma : PxSigmas]

Degenerate(p) == p.S <= 0 \/ p.K <= 0 \/ p.sigma <= 0 \/ p.T <= 0

PxInit == px \in [args : PxArgs, fn : {"none"}, val : {0}]

PxApply(fn, val) ==
    /\ px.fn = "none"
    /\ px' = [px EXCEPT !.fn = fn, !.val = val]
    /\ UNCHANGED <<rng, sim, spl, tr, scan, yf, lc, pk, ep, rq, dp>>

EvalBsD1 == PxApply("bs_d1", bs_d1(px.args.S, px.args.K, px.args.T, px.args.r, px.args.sigma))

EvalBsD2 ==
    PxApply("bs_d2", bs_d2(bs_d1(px.args.S, px.args.K, px.args.T, px.args.r, px.args.sigma),
                           px.args.sigma, px.args.T))

EvalCallDelta ==
    PxApply("call_delta", call_delta(px.args.S, px.args.K, px.args.T, px.args.r, px.args.sigma))

EvalPutDelta ==
    PxApply("put_delta", put_delta(px.args.S, px.args.K, px.args.T, px.args.r, px.args.sigma))

EvalProbAbove ==
    PxApply("prob_ST_above_x",
            prob_ST_above_x(px.args.S, px.args.K, px.args.T, px.args.r, px.args.sigma))

EvalD1 == PxApply("d1", d1(px.args))

EvalD2 == PxApply("d2", d2(px.args))

EvalProbFinish == PxApply("prob_finish_above_strike", prob_finish_above_strike(px.args))

-----------------------------------------------------------------------------
(* The mounted endpoints (main.py lines 40-45), each answering one request *)
(* with a status: 200 with a body, or 500 when an exception leaves the     *)
(* handler.  routers/screener.py _req_json is one step per attempt.        *)

Retries == 2
ScanTickers == 3
SectorTickers == 2

EpIdle == [name |-> "none", pc |-> "idle", i |-> 0, last |-> "none",
           req |-> "none", status |-> 0, body |-> "none"]

Respond(name, status, body) ==
    [EpIdle EXCEPT !.name = name, !.pc = "done", !.status = status, !.body = body]

\* the response, with the request's parameters and what the providers did
Served(req, resp) == [resp EXCEPT !.req = req]

\* GET /sectors (lines 63-77) on what _quote_batch gave: a body to read, or
\* an exception, which nothing catches
sectors(got) ==
    IF got = "raise" THEN Respond("sectors", 500, "unhandled")
    ELSE Respond("sectors", 200, got)

\* GET /top-movers (lines 102-108): the try catches
top_movers(got) ==
    IF got = "raise" THEN Respond("top-movers", 200, "note")
    ELSE Respond("top-movers", 200, got)

Handle(name, got) == IF name = "sectors" THEN sectors(got) ELSE top_movers(got)

StartSectors ==
    /\ ep.pc = "idle"
    /\ ep' = [EpIdle EXCEPT !.name = "sectors", !.pc = "req"]
    /\ UNCHANGED <<px, rng, sim, spl, tr, scan, yf, lc, pk, rq, dp>>

StartTopMovers ==
    /\ ep.pc = "idle"
    /\ ep' = [EpIdle EXCEPT !.name = "top-movers", !.pc = "req"]
    /\ UNCHANGED <<px, rng, sim, spl, tr, scan, yf, lc, pk, rq, dp>>

\* one pass of the loop of _req_json (lines 28-41) and, when it returns or
\* raises, the rest of the handler: a JSON object (full, partial or empty
\* of rows), a JSON body that is not an object, a 429, another error
ReqAttempt ==
    /\ ep.pc = "req"
    /\ \E out \in {"full", "partial", "empty", "notobject", "429", "error"} :
          ep' = IF out \in {"full", "partial", "empty"} THEN Handle(ep.name, out)
                ELSE IF out = "notobject" THEN Handle(ep.name, "raise")
                ELSE IF ep.i < Retries THEN [ep EXCEPT !.i = @ + 1, !.last = out]
                ELSE Handle(ep.name, "raise")
    /\ UNCHANGED <<px, rng, sim, spl, tr, scan, yf, lc, pk, rq, dp>>

Count(f, v) == Cardinality({i \in DOMAIN f : f[i] = v})

\* GET /scan (lines 128-193): every ticker in its own try
Scan ==
    /\ ep.pc = "idle"
    /\ \E outs \in [1..ScanTickers -> {"row", "empty", "raise"}] :
          ep' = Served(outs, IF ~yf THEN Respond("scan", 200, "note")
                             ELSE Respond("scan", 200, <<"results", Count(outs, "row")>>))
    /\ UNCHANGED <<px, rng, sim, spl, tr, scan, yf, lc, pk, rq, dp>>

\* GET /sector-ideas (lines 229-292): picks, share fallback and news guarded
SectorIdeas ==
    /\ ep.pc = "idle"
    /\ \E known \in BOOLEAN, picks \in [1..SectorTickers -> PickOutcomes],
          shares \in [1..SectorTickers -> {"row", "short", "raise"}],
          news \in {"news", "raise"} :
          LET options == Count([i \in 1..SectorTickers |-> picks[i].kind], "idea")
              fallback == IF options < TopIdeas /\ yf THEN Count(shares, "row") ELSE 0
          IN  ep' = IF ~known THEN Respond("sector-ideas", 200, "note")
                    ELSE Respond("sector-ideas", 200,
                                 <<"ideas", Min2(TopIdeas, options + fallback), news>>)
    /\ UNCHANGED <<px, rng, sim, spl, tr, scan, yf, lc, pk, rq, dp>>

\* GET /idea (lines 384-387): pick_contracts_for_symbol, unguarded
IdeaEndpoint ==
    /\ ep.pc = "idle"
    /\ \E o \in PickOutcomes :
          ep' = IF o.kind = "raise" THEN Respond("idea", 500, "unhandled")
                ELSE Respond("idea", 200, <<o.kind, o.note>>)
    /\ UNCHANGED <<px, rng, sim, spl, tr, scan, yf, lc, pk, rq, dp>>

\* POST /scan-ideas (lines 394-418)
ScanIdeasEndpoint ==
    /\ ep.pc = "idle"
    /\ \E o \in PickOutcomes :
          LET resp == scan_ideas([i \in 1..UniverseLen |-> o])
          IN  ep' = Respond("scan-ideas", 200, <<"ideas", Len(resp.ideas), resp.note>>)
    /\ UNCHANGED <<px, rng, sim, spl, tr, scan, yf, lc, pk, rq, dp>>

\* POST /monte-carlo (routers/simulator.py lines 18-25): daily_series, then
\* simulate, then np.percentile of the terminal prices; nothing is caught,
\* and a NaN in the body cannot be encoded
MonteCarloRaises(series, cfg) ==
    series = "raise" \/ AllocRaises(cfg) \/ cfg.n_paths = 0

MonteCarlo ==
    /\ ep.pc = "idle"
    /\ \E series \in {"series", "raise"}, cfg \in McCfgs :
          ep' = Served(<<series, cfg>>,
                       IF MonteCarloRaises(series, cfg)
                       THEN Respond("monte-carlo", 500, "unhandled")
                       ELSE Respond("monte-carlo", 200, <<"paths", cfg.days, cfg.n_paths>>))
    /\ UNCHANGED <<px, rng, sim, spl, tr, scan, yf, lc, pk, rq, dp>>

-----------------------------------------------------------------------------
(* _req_json, the retrying GET of both routers (options.py lines 49-63,  *)
(* screener.py lines 26-41).  Sleeps are recorded in milliseconds.         *)

MaxRetries == 2

\* the places that call _req_json: options.py line 67, screener.py lines
\* 60, 82 and 215
ReqSites == {"v7_options", "quote", "day_gainers", "news"}

CopyOf(site) == IF site = "v7_options" THEN "options" ELSE "screener"

RqIdle ==
    [site |-> "none", retries |-> 0, pc |-> "idle", i |-> 0, attempts |-> 0,
     slept |-> <<>>, last |-> "none"]

AttemptsOneMore(retries) == retries + 2

\* range(retries+1)
Attempts(retries) == retries + 1

\* time.sleep(0.6 if i < retries else 0) after a 429 and
\* time.sleep(0.4 if i < retries else 0) after an exception; 0.7 and 0.5
\* in the screener copy
SleepMs(copy, out, i, retries) ==
    IF ~(i < retries) THEN 0
    ELSE IF copy = "options" THEN (IF out = "429" THEN 600 ELSE 400)
    ELSE (IF out = "429" THEN 700 ELSE 500)

\* a call of _req_json: last_err = None and the loop is entered
ReqCall ==
    /\ rq.pc \in {"idle", "returned", "raised"}
    /\ \E site \in ReqSites, retries \in 0..MaxRetries :
          rq' = [RqIdle EXCEPT !.site = site, !.retries = retries, !.pc = "loop"]
    /\ UNCHANGED <<px, rng, sim, spl, tr, scan, yf, lc, pk, ep, dp>>

\* one pass of the loop: the GET answers JSON, answers 429, or raises
\* (a refused connection, a timeout, an error status, a body that is not
\* JSON); after the last pass the saved error is raised
ReqTry ==
    /\ rq.pc = "loop"
    /\ \E out \in {"json", "429", "error"} :
          LET tried == [rq EXCEPT !.attempts = @ + 1]
              failed == [tried EXCEPT
                            !.last = out,
                            !.slept = Append(@, SleepMs(CopyOf(rq.site), out,
                                                        rq.i, rq.retries)),
                            !.i = @ + 1]
          IN  rq' = IF out = "json" THEN [tried EXCEPT !.pc = "returned"]
                    ELSE IF failed.i < Attempts(rq.retries) THEN failed
                    ELSE [failed EXCEPT !.pc = "raised"]
    /\ UNCHANGED <<px, rng, sim, spl, tr, scan, yf, lc, pk, ep, dp>>

-----------------------------------------------------------------------------
(* services/data_providers.py: sector_performance and top_gainers_losers   *)
(* under functools.lru_cache (lines 10-17), with the clock and the data    *)
(* the upstream provider would answer at each moment.                      *)

CACHE_TTL_SECONDS == 120

MaxTicks == 3
MaxVersion == 2

TickSeconds == CACHE_TTL_SECONDS

Memoized == {"sector_performance", "top_gainers_losers"}

NoEntry == [val |-> None, at |-> 0]
NoCall == [fn |-> "none", at |-> 0, val |-> None, fetched |-> 0, hit |-> FALSE]

DpIdle ==
    [mock |-> FALSE, ticks |-> 0, upstream |-> 0,
     cache |-> [fn \in Memoized |-> NoEntry], served |-> NoCall]

\* what the body of the function returns now: the mock data, or the JSON
\* fetched from the provider
Fetch(d) == IF d.mock THEN 0 ELSE d.upstream

Now(d) == d.ticks * TickSeconds

\* a call through lru_cache: a stored result is returned as it is, however
\* old; otherwise the body runs and its result is stored; a body that
\* raises stores nothing
CachedCall(d, fn, raises) ==
    IF d.cache[fn] # NoEntry
    THEN [d EXCEPT !.served = [fn |-> fn, at |-> Now(d), val |-> d.cache[fn].val,
                               fetched |-> d.cache[fn].at, hit |-> TRUE]]
    ELSE IF raises
    THEN [d EXCEPT !.served = [fn |-> fn, at |-> Now(d), val |-> Exc,
                               fetched |-> Now(d), hit |-> FALSE]]
    ELSE [d EXCEPT !.cache[fn] = [val |-> Fetch(d), at |-> Now(d)],
                   !.served = [fn |-> fn, at |-> Now(d), val |-> Fetch(d),
                               fetched |-> Now(d), hit |-> FALSE]]

sector_performance ==
    /\ \E raises \in BOOLEAN :
          /\ raises => ~dp.mock
          /\ dp' = CachedCall(dp, "sector_performance", raises)
    /\ UNCHANGED <<px, rng, sim, spl, tr, scan, yf, lc, pk, ep, rq>>

top_gainers_losers ==
    /\ \E raises \in BOOLEAN :
          /\ raises => ~dp.mock
          /\ dp' = CachedCall(dp, "top_gainers_losers", raises)
    /\ UNCHANGED <<px, rng, sim, spl, tr, scan, yf, lc, pk, ep, rq>>

\* time passes
Tick ==
    /\ dp.ticks < MaxTicks
    /\ dp' = [dp EXCEPT !.ticks = @ + 1]
    /\ UNCHANGED <<px, rng, sim, spl, tr, scan, yf, lc, pk, ep, rq>>

\* the provider publishes new figures
Publish ==
    /\ dp.upstream < MaxVersion
    /\ dp' = [dp EXCEPT !.upstream = @ + 1]
    /\ UNCHANGED <<px, rng, sim, spl, tr, scan, yf, lc, pk, ep, rq>>

-----------------------------------------------------------------------------
(* The specifications.  Each explores one part of the program from the     *)
(* state after start-up, the other parts staying idle.                     *)

PricingInit ==
    /\ PxInit
    /\ rng = 0
    /\ sim = [th \in Threads |-> SimIdle]
    /\ spl = SplIdle
    /\ tr = TrIdle
    /\ scan = ScanIdle
    /\ yf = TRUE
    /\ lc = LcIdle
    /\ pk = PkIdle
    /\ ep = EpIdle
    /\ rq = RqIdle
    /\ dp = DpIdle

PricingNext ==
    \/ EvalBsD1
    \/ EvalBsD2
    \/ EvalCallDelta
    \/ EvalPutDelta
    \/ EvalProbAbove
    \/ EvalD1
    \/ EvalD2
    \/ EvalProbFinish

SpecPricing == PricingInit /\ [][PricingNext]_vars

McInit ==
    /\ PxIdle
    /\ rng = 0
    /\ sim = [th \in Threads |-> SimIdle]
    /\ spl = SplIdle
    /\ tr = TrIdle
    /\ scan = ScanIdle
    /\ yf = TRUE
    /\ lc = LcIdle
    /\ pk = PkIdle
    /\ ep = EpIdle
    /\ rq = RqIdle
    /\ dp = DpIdle

McNext ==
    \/ \E th \in Threads : \E cfg \in McCfgs : SimulateCall(th, cfg)
    \/ \E th \in Threads : SimSeed(th)
    \/ \E th \in Threads : SimDraw(th)
    \/ OptionPl
    \/ DirichletDraw

SpecMC == McInit /\ [][McNext]_vars

TrendInit ==
    /\ PxIdle
    /\ rng = 0
    /\ sim = [th \in Threads |-> SimIdle]
    /\ spl = SplIdle
    /\ tr \in [hist : HistParams, done : {FALSE}, res : {TrIdle.res}]
    /\ scan = ScanIdle
    /\ yf = TRUE
    /\ lc = LcIdle
    /\ pk = PkIdle
    /\ ep = EpIdle
    /\ rq = RqIdle
    /\ dp = DpIdle

TrendNext == ComputeTrend

SpecTrend == TrendInit /\ [][TrendNext]_vars

ScanInit ==
    /\ PxIdle
    /\ rng = 0
    /\ sim = [th \in Threads |-> SimIdle]
    /\ spl = SplIdle
    /\ tr = TrIdle
    /\ scan \in [world : [1..UniverseLen -> PickOutcomes], done : {FALSE},
                 resp : {ScanIdle.resp}]
    /\ yf = TRUE
    /\ lc = LcIdle
    /\ pk = PkIdle
    /\ ep = EpIdle
    /\ rq = RqIdle
    /\ dp = DpIdle

ScanNext == ScanIdeas

SpecScan == ScanInit /\ [][ScanNext]_vars

PickInit ==
    /\ PxIdle
    /\ rng = 0
    /\ sim = [th \in Threads |-> SimIdle]
    /\ spl = SplIdle
    /\ tr = TrIdle
    /\ scan = ScanIdle
    /\ yf \in BOOLEAN
    /\ lc = LcIdle
    /\ pk = PkIdle
    /\ ep = EpIdle
    /\ rq = RqIdle
    /\ dp = DpIdle

PickNext ==
    \/ \E bp \in BuyingPowers : Idea(bp)
    \/ YfOptions
    \/ YfPrice
    \/ YfOptionChain
    \/ V7Request
    \/ PickFinish

SpecPick == PickInit /\ [][PickNext]_vars

EndpointsInit ==
    /\ PxIdle
    /\ rng = 0
    /\ sim = [th \in Threads |-> SimIdle]
    /\ spl = SplIdle
    /\ tr = TrIdle
    /\ scan = ScanIdle
    /\ yf \in BOOLEAN
    /\ lc = LcIdle
    /\ pk = PkIdle
    /\ ep = EpIdle
    /\ rq = RqIdle
    /\ dp = DpIdle

EndpointsNext ==
    \/ StartSectors
    \/ StartTopMovers
    \/ ReqAttempt
    \/ Scan
    \/ SectorIdeas
    \/ IdeaEndpoint
    \/ ScanIdeasEndpoint
    \/ MonteCarlo

SpecEndpoints == EndpointsInit /\ [][EndpointsNext]_vars

ReqInit ==
    /\ PxIdle
    /\ rng = 0
    /\ sim = [th \in Threads |-> SimIdle]
    /\ spl = SplIdle
    /\ tr = TrIdle
    /\ scan = ScanIdle
    /\ yf = TRUE
    /\ lc = LcIdle
    /\ pk = PkIdle
    /\ ep = EpIdle
    /\ rq = RqIdle
    /\ dp = DpIdle

ReqNext ==
    \/ ReqCall
    \/ ReqTry

SpecReq == ReqInit /\ [][ReqNext]_vars

CacheInit ==
    /\ PxIdle
    /\ rng = 0
    /\ sim = [th \in Threads |-> SimIdle]
    /\ spl = SplIdle
    /\ tr = TrIdle
    /\ scan = ScanIdle
    /\ yf = TRUE
    /\ lc = LcIdle
    /\ pk = PkIdle
    /\ ep = EpIdle
    /\ rq = RqIdle
    /\ dp \in {[DpIdle EXCEPT !.mock = m] : m \in BOOLEAN}

CacheNext ==
    \/ sector_performance
    \/ top_gainers_losers
    \/ Tick
    \/ Publish

SpecCache == CacheInit /\ [][CacheNext]_vars

-----------------------------------------------------------------------------
(* C1: load_chain never raises to its caller: whatever the providers do    *)
(* (yfinance missing or raising at any step, the v7 request raising or     *)
(* returning an empty or malformed body) it returns a record with the keys *)
(* price, expiries and chains, chains a list of {expiry, dte, calls, puts},*)
(* and provider errors show only in the optional note string.              *)
LcNotes == {NoNote, NoteRateLimited, NoteYfError, NoteProviderError, NoteNoExpiries}

WellTypedBook(b) ==
    /\ {"price", "expiries", "chains"} \subseteq DOMAIN b
    /\ \A i \in 1..Len(b.chains) :
          /\ DOMAIN b.chains[i] = {"expiry", "dte", "calls", "puts"}
          /\ InWindow(b.chains[i].dte)
    /\ \A i \in 1..Len(b.expiries) : InWindow(b.expiries[i])
    /\ b.note \in LcNotes

C1_LoadChainNeverRaises ==
    /\ lc.pc # "raised"
    /\ lc.pc = "ret" =>
          /\ WellTypedBook(lc.ret)
          /\ V7Raises(lc.v7) =>
                /\ lc.ret.price = None
                /\ lc.ret.expiries = <<>>
                /\ lc.ret.chains = <<>>
                /\ lc.ret.note \in {NoteRateLimited, NoteProviderError}

C1_Witness == lc.pc = "ret" /\ lc.yfo = "raised" /\ lc.v7 = "malformed"

(* C2: every mounted endpoint answers a request that passed input          *)
(* validation with a well-formed body, never with an unhandled exception   *)
(* or an error status, whatever the provider does.                         *)
C2_EveryEndpointDegrades ==
    ep.pc = "done" => (ep.status = 200 /\ ep.body # "unhandled")

(* C3: the contract pick_contracts_for_symbol returns as suggestion        *)
(* satisfies mid_price * 100 <= buying_power and cost_estimate <=          *)
(* buying_power; with buying_power = 0 no suggestion is ever returned.     *)
Suggested == pk.pc = "done" /\ pk.res.kind = "idea"

C3_SuggestionAffordable ==
    Suggested =>
        /\ pk.res.suggestion.mid_price * 100 <= pk.bp
        /\ pk.res.cost_estimate <= pk.bp
        /\ pk.bp # 0

(* C4: enrich_contracts never emits a record when the mid-price, the       *)
(* strike or the spot S is non-positive: every emitted record has          *)
(* mid_price > 0, strike > 0 and was computed from S > 0, also for the 0.0 *)
(* that pick_contracts_for_symbol substitutes for a missing price.         *)
C4_EmittedPositive ==
    pk.pc = "done" =>
        \A i \in 1..Len(pk.res.emitted) :
            /\ pk.res.emitted[i].mid_price > 0
            /\ pk.res.emitted[i].strike > 0
            /\ pk.res.under_price > 0

(* C5: every pricing function returns the NaN sentinel, and does not       *)
(* raise, whenever S <= 0, K <= 0, sigma <= 0 or T <= 0.                   *)
C5_DegenerateGivesNaN ==
    (px.fn # "none" /\ Degenerate(px.args)) => px.val = NaN

(* C6: a Monte Carlo simulation invoked with n_paths = 0 or with a horizon *)
(* of zero or negative days yields the "no result" outcome (None) and      *)
(* never raises: simulate_option_pl_samples and monte_carlo.simulate.      *)
DegenerateSpl == spl.called /\ (spl.args.n_paths = 0 \/ spl.args.T_days <= 0)

DegenerateSim(th) ==
    sim[th].pc = "done" /\ (sim[th].cfg.n_paths = 0 \/ sim[th].cfg.days <= 0)

C6_DegenerateGivesNoResult ==
    /\ DegenerateSpl => spl.res.kind = "none"
    /\ \A th \in Threads :
          DegenerateSim(th) =>
              ~sim[th].res.raised /\ sim[th].res.terminal_prices = <<>>

(* C7: monte_carlo.simulate with a fixed non-null seed is deterministic:   *)
(* two invocations with identical MCConfig return identical terminal       *)
(* prices and prob_touch, whatever other draws from the process-wide       *)
(* random source are interleaved between its seeding and its draws.        *)
C7_SeededSimulateDeterministic ==
    \A a, b \in Threads :
        (/\ sim[a].pc = "done" /\ sim[b].pc = "done"
         /\ sim[a].cfg = sim[b].cfg /\ sim[a].cfg.seed # None)
        => sim[a].res = sim[b].res

(* C8: compute_trend on a flat close series of at least 50 observations    *)
(* reports RSI(14) = 50 and classifies the trend as "neutral".             *)
FlatHistory == tr.hist.kind = "flat" /\ tr.hist.len >= MinHistory

C8_FlatIsNeutralRsi50 ==
    (tr.done /\ FlatHistory) => (tr.res.rsi = 5000 /\ tr.res.trend = "neutral")

(* C9: whenever no contract survives the selection filters,               *)
(* pick_contracts_for_symbol returns a result without a suggestion, with   *)
(* an empty candidates list and a non-null note, and does so without       *)
(* relaxing the affordability, liquidity or delta filter or retrying.      *)
OnPreferredSide(c) ==
    \/ pk.prefer = "neutral"
    \/ pk.prefer = "up" /\ c.type = "CALL"
    \/ pk.prefer = "down" /\ c.type = "PUT"

PassesFilters(c) ==
    /\ c.mid_price * 100 <= pk.bp
    /\ (c.oi >= 50 \/ c.volume >= 10)
    /\ c.delta # None

\* the chains were enriched and none of the contracts passes the filters
NoSurvivor ==
    /\ pk.pc = "done"
    /\ lc.pc = "ret"
    /\ lc.ret.chains # <<>>
    /\ ~AnyEnrichRaises(lc.ret.chains)
    /\ \A i \in 1..Len(pk.res.emitted) :
          OnPreferredSide(pk.res.emitted[i]) => ~PassesFilters(pk.res.emitted[i])

NothingSuggested == pk.res.kind = "nocand" /\ pk.res.candidates = <<>>

RanksHigher(x, y) ==
    \/ x.confidence > y.confidence
    \/ x.confidence = y.confidence /\ x.med > y.med

Returned == {scan.resp.ideas[i].symbol : i \in 1..Len(scan.resp.ideas)}

Yielding == {sym \in 1..UniverseLen : scan.world[sym].kind = "idea"}

C10_Shape ==
    /\ Len(scan.resp.ideas) <= TopIdeas
    /\ \A i \in 1..Len(scan.resp.ideas) :
          LET r == scan.resp.ideas[i]
          IN  /\ r.symbol \in Yielding
              /\ r.confidence = scan.world[r.symbol].confidence
              /\ r.med = scan.world[r.symbol].med
    /\ \A i, j \in 1..Len(scan.resp.ideas) :
          i < j => ~RanksHigher(scan.resp.ideas[j], scan.resp.ideas[i])

\* no symbol of `among` that is left out ranks strictly higher than a
\* returned idea
NoneBetterLeftOut(among) ==
    \A sym \in among \ Returned :
        \A i \in 1..Len(scan.resp.ideas) :
            ~RanksHigher(scan.world[sym], scan.resp.ideas[i])

(* C10 as claimed: and the returned ideas are the top-ranked of the whole  *)
(* universe: no symbol that yields a suggestion ranks strictly higher than *)
(* a returned idea while being left out.                                   *)
C10_TopOfWholeUniverse ==
    scan.done => (C10_Shape /\ NoneBetterLeftOut(Yielding))

(* C10 as amended: the returned ideas are the top-ranked of the first      *)
(* GatherCap (6) suggestion-yielding symbols in universe order, and the    *)
(* symbols after the sixth such symbol are not looked at; when fewer than  *)
(* three symbols yield a suggestion, all of them are returned.             *)
FirstYielding ==
    {sym \in Yielding : Cardinality({o \in Yielding : o < sym}) < GatherCap}

C10_TopOfFirstGathered ==
    scan.done =>
        /\ C10_Shape
        /\ Returned \subseteq FirstYielding
        /\ NoneBetterLeftOut(FirstYielding)
        /\ Len(scan.resp.ideas) = Min2(TopIdeas, Cardinality(FirstYielding))

C10_Witness ==
    /\ scan.done
    /\ Cardinality(Yielding) > GatherCap
    /\ Len(scan.resp.ideas) = TopIdeas
    /\ \E sym \in Yielding \ FirstYielding :
          RanksHigher(scan.world[sym], scan.resp.ideas[TopIdeas])

(* C11: whenever a provider attempt made during load_chain fails with HTTP *)
(* 429 / "Too Many Requests" (a yfinance call or the v7 request),          *)
(* load_chain does not raise and the record it returns carries the         *)
(* rate-limit note, whatever the later provider attempts do.               *)
\* the yfinance path leaves the rate-limit note only after a 429, and the
\* v7 request's own 429 shows as lc.v7
Met429(l) == l.note = NoteRateLimited \/ l.v7 = "raise429"

C11_RateLimitNoteSurvives ==
    [][(lc'.pc \in {"ret", "raised"} /\ (Met429(lc) \/ Met429(lc')))
          => (lc'.pc = "ret" /\ lc'.ret.note = NoteRateLimited)]_vars

(* C12: load_chain tries the providers in a fixed priority order: a later  *)
(* provider is attempted only after every earlier one raised or returned   *)
(* zero usable chains, and whenever a provider raises or returns zero      *)
(* usable chains the next provider in the order is attempted before a      *)
(* result is returned.                                                     *)
Attempted(l) ==
    (IF l.yfo \in {"raised", "nochains", "ok"} THEN {"yfinance"} ELSE {})
    \cup (IF l.v7 # "none" THEN {"v7"} ELSE {})

YfinanceGaveNothing(l) == l.yfo \in {"absent", "raised", "nochains"}

V7GaveNothing(l) == l.v7 # "none" /\ l.ret.chains = <<>>

YfinanceBeforeV7 ==
    /\ lc.pc = "v7" => YfinanceGaveNothing(lc)
    /\ lc.pc = "ret" =>
          \/ lc.yfo = "ok" /\ lc.v7 = "none" /\ lc.ret.chains # <<>>
          \/ YfinanceGaveNothing(lc) /\ lc.v7 # "none"

NoChainReported == pk.pc = "done" /\ pk.res.kind = "nochain"

C13_WindowsWidenedBeforeGivingUp ==
    NoChainReported =>
        pk.windows = <<Window(21, 45), Window(14, 60), Window(30, 90)>>

(* C14: every chain in the record load_chain returns, from either          *)
(* provider, has min_dte <= dte <= max_dte and its expiry is listed in     *)
(* expiries; an expiry whose date is unparsable or whose chain fetch       *)
(* raises is dropped alone, and the in-window sibling expiries that        *)
(* fetched successfully are all still returned.                            *)
ListedIn(e, expiries) == \E j \in 1..Len(expiries) : expiries[j] = e

ChainsInWindowAndListed(l) ==
    l.pc = "ret" =>
        \A i \in 1..Len(l.ret.chains) :
            /\ 21 <= l.ret.chains[i].dte /\ l.ret.chains[i].dte <= 45
            /\ l.ret.chains[i].dte = l.ret.chains[i].expiry
            /\ ListedIn(l.ret.chains[i].expiry, l.ret.expiries)

IsPrefix(a, b) == Len(a) <= Len(b) /\ SubSeq(b, 1, Len(a)) = a

\* a step of the loop over the valid expiries keeps every chain fetched so
\* far, and the book returned holds them all
SiblingsKept(l, m) ==
    l.pc = "chain" =>
        /\ m.pc = "chain" => IsPrefix(l.chains, m.chains)
        /\ m.pc = "ret" => (IsPrefix(l.chains, m.chains) /\ m.ret.chains = m.chains)
        /\ m.pc = "v7" => l.chains = <<>>

C14_InWindowSiblingsReturned ==
    [][ChainsInWindowAndListed(lc') /\ SiblingsKept(lc, lc')]_vars

C14_Witness ==
    /\ lc.pc = "ret"
    /\ lc.yfo = "ok"
    /\ Len(lc.valid) = 2
    /\ Len(lc.ret.chains) = 1
    /\ lc.ret.chains[1].expiry = lc.valid[2]

(* C15: the suggestion returned by pick_contracts_for_symbol is the        *)
(* lexicographic minimum, over all candidates that passed the              *)
(* affordability filter, the liquidity bar and have a defined delta, of    *)
(* the key (| |delta| - target |, -confidence, expiry): no surviving       *)
(* candidate is strictly closer to the target delta, among equally close   *)
(* ones none has a higher confidence, and among those none has an earlier  *)
(* expiry.                                                                 *)
Survivors ==
    {i \in 1..Len(pk.res.emitted) :
        OnPreferredSide(pk.res.emitted[i]) /\ PassesFilters(pk.res.emitted[i])}

DeltaDistance(c) ==
    IF Abs(c.delta) >= 3000 THEN Abs(c.delta) - 3000 ELSE 3000 - Abs(c.delta)

StrictlyPreferred(c, d) ==
    \/ DeltaDistance(c) < DeltaDistance(d)
    \/ /\ DeltaDistance(c) = DeltaDistance(d)
       /\ confidence_score(c) > confidence_score(d)
    \/ /\ DeltaDistance(c) = DeltaDistance(d)
       /\ confidence_score(c) = confidence_score(d)
       /\ c.expiry < d.expiry

SameContract(c, d) ==
    /\ c.expiry = d.expiry /\ c.type = d.type /\ c.strike = d.strike
    /\ c.mid_price = d.mid_price /\ c.delta = d.delta
    /\ c.oi = d.oi /\ c.volume = d.volume /\ c.iv = d.iv

C15_SuggestionIsKeyMinimum ==
    Suggested =>
        /\ \E i \in Survivors : SameContract(pk.res.emitted[i], pk.res.suggestion)
        /\ \A i \in Survivors :
              ~StrictlyPreferred(pk.res.emitted[i], pk.res.suggestion)

\* two survivors equally close to the target, the tie broken by confidence
C15_Witness ==
    /\ Suggested
    /\ \E i \in Survivors :
          /\ DeltaDistance(pk.res.emitted[i]) = DeltaDistance(pk.res.suggestion)
          /\ confidence_score(pk.res.emitted[i]) < confidence_score(pk.res.suggestion)

(* C16: _req_json, in both copies, makes at most retries + 1 attempts      *)
(* whether the failures are 429 answers or exceptions, returns on the      *)
(* first attempt that succeeds and otherwise ends after the last attempt;  *)
(* it sleeps only between attempts, a few hundred milliseconds, and never  *)
(* after the final attempt.                                                *)
BetweenAttempts(r) == {k \in DOMAIN r.slept : k <= r.retries}

BoundedAttempts(r) ==
    /\ r.attempts <= r.retries + 1
    /\ r.pc = "loop" => r.attempts <= r.retries
    /\ r.pc = "returned" => Len(r.slept) = r.attempts - 1
    /\ r.pc = "raised" => r.attempts = r.retries + 1 /\ Len(r.slept) = r.attempts

NoSleepAfterFinal(r) ==
    \A k \in DOMAIN r.slept : k > r.retries => r.slept[k] = 0

FewHundredMs(r) ==
    \A k \in BetweenAttempts(r) : r.slept[k] >= 100 /\ r.slept[k] < 1000

\* as stated: the sleep grows with the attempt number
C16_BoundedRetriesGrowingBackoff ==
    /\ BoundedAttempts(rq)
    /\ NoSleepAfterFinal(rq)
    /\ FewHundredMs(rq)
    /\ \A k, l \in BetweenAttempts(rq) : k < l => rq.slept[k] < rq.slept[l]

\* amended: the sleep is the same after every attempt that failed the same
\* way, 0.6 s (options) or 0.7 s (screener) after a 429 and 0.4 s or 0.5 s
\* after an exception
C16_BoundedRetriesFixedDelay ==
    /\ BoundedAttempts(rq)
    /\ NoSleepAfterFinal(rq)
    /\ FewHundredMs(rq)
    /\ \A k \in BetweenAttempts(rq) :
          rq.slept[k] \in (IF rq.site = "v7_options" THEN {600, 400}
                           ELSE {700, 500})

\* three 429 answers with the default retries: two equal sleeps, then none
C16_Witness ==
    /\ rq.pc = "raised"
    /\ rq.retries = 2
    /\ rq.attempts = 3
    /\ rq.last = "429"
    /\ Len(rq.slept) = 3
    /\ rq.slept[1] = rq.slept[2]
    /\ rq.slept[3] = 0

(* C17: a raw contract row with a malformed or missing field (a NaN or     *)
(* non-numeric strike, bid, ask, last price, open interest, volume or      *)
(* implied volatility) is skipped on its own: enrich_contracts does not    *)
(* raise and every well-formed row of the same book that passes the emit   *)
(* guard is still emitted, whichever provider the rows came from.          *)
WellFormed(row) ==
    /\ row.strike # NaN /\ row.bid # NaN /\ row.ask # NaN
    /\ row.lastPrice # NaN /\ row.openInterest # NaN /\ row.volume # NaN
    /\ row.impliedVolatility # NaN

SiblingEmitted(S, dte, row, is_call) ==
    (WellFormed(row) /\ Emits(S, row))
        => \E k \in 1..Len(pk.res.emitted) :
              pk.res.emitted[k] = Enriched(S, dte, row, is_call)

C17_MalformedRowSkippedAlone ==
    (pk.pc = "done" /\ lc.pc = "ret" /\ lc.ret.chains # <<>>) =>
        /\ pk.res.kind # "raise"
        /\ \A i \in 1..Len(lc.ret.chains) :
              LET ch == lc.ret.chains[i]
              IN  /\ \A j \in 1..Len(ch.calls) :
                        SiblingEmitted(SpotOf(lc.ret), ch.expiry, ch.calls[j], TRUE)
                  /\ \A j \in 1..Len(ch.puts) :
                        SiblingEmitted(SpotOf(lc.ret), ch.expiry, ch.puts[j], FALSE)

(* C18: the confidence of the contract pick_contracts_for_symbol suggests  *)
(* is an integer in 0..100, the sum of the open-interest, volume,          *)
(* delta-band and premium bucket points, plus the 15 points of the         *)
(* implied-volatility bucket only when the raw row carried a positive      *)
(* implied volatility: none when it was missing or zero.                   *)
OiPoints(c) ==
    IF c.oi >= 500 THEN 35 ELSE IF c.oi >= 200 THEN 25
    ELSE IF c.oi >= 50 THEN 15 ELSE 0

VolumePoints(c) ==
    IF c.volume >= 200 THEN 20 ELSE IF c.volume >= 50 THEN 12
    ELSE IF c.volume >= 10 THEN 6 ELSE 0

DeltaPoints(c) ==
    IF c.delta # None /\ 1000 <= Abs(c.delta) /\ Abs(c.delta) <= 6000
    THEN 15 ELSE 0

PremiumPoints(c) ==
    IF c.mid_price * 100 <= 300 * Dollar THEN 10
    ELSE IF c.mid_price * 100 <= 800 * Dollar THEN 6 ELSE 2

IvPoints(row) == IF Gt0(row.impliedVolatility) THEN 15 ELSE 0

ScoredFromRow(S, dte, row, is_call) ==
    (Emits(S, row) /\ SameContract(Enriched(S, dte, row, is_call), pk.res.suggestion))
        => pk.res.confidence = OiPoints(pk.res.suggestion)
                               + VolumePoints(pk.res.suggestion)
                               + DeltaPoints(pk.res.suggestion)
                               + PremiumPoints(pk.res.suggestion)
                               + IvPoints(row)

C18_IvBucketNeedsPositiveIv ==
    (Suggested /\ lc.pc = "ret") =>
        /\ pk.res.confidence \in 0..100
        /\ \A i \in 1..Len(lc.ret.chains) :
              LET ch == lc.ret.chains[i]
              IN  /\ \A j \in 1..Len(ch.calls) :
                        ScoredFromRow(SpotOf(lc.ret), ch.expiry, ch.calls[j], TRUE)
                  /\ \A j \in 1..Len(ch.puts) :
                        ScoredFromRow(SpotOf(lc.ret), ch.expiry, ch.puts[j], FALSE)

(* C19: a response memoized by sector_performance or top_gainers_losers is *)
(* served from the cache for at most CACHE_TTL_SECONDS: a call made after  *)
(* the TTL has elapsed since the response was fetched is not answered from *)
(* the cache but by a fresh fetch.                                         *)
C19_CacheTtlBounded ==
    (dp.served.fn \in Memoized /\ dp.served.hit)
        => dp.served.at - dp.served.fetched <= CACHE_TTL_SECONDS

(* C20: in pick_contracts_for_symbol the trend restricts the contract      *)
(* type: with trend "up" the suggestion is a CALL, with trend "down" it is *)
(* a PUT, and only with trend "neutral" do calls and puts compete in one   *)
(* ranking; a better-ranked contract of the excluded type is never         *)
(* returned.                                                               *)
Eligible ==
    {i \in 1..Len(pk.res.emitted) : PassesFilters(pk.res.emitted[i])}

C20_TrendRestrictsType ==
    Suggested =>
        /\ pk.prefer = "up" => pk.res.suggestion.type = "CALL"
        /\ pk.prefer = "down" => pk.res.suggestion.type = "PUT"
        /\ pk.prefer = "neutral" =>
              \A i \in Eligible :
                  ~StrictlyPreferred(pk.res.emitted[i], pk.res.suggestion)

\* a put is suggested on a down trend although a call ranks before it
C20_Witness ==
    /\ Suggested
    /\ pk.prefer = "down"
    /\ pk.res.suggestion.type = "PUT"
    /\ \E i \in Eligible :
          /\ pk.res.emitted[i].type = "CALL"
          /\ StrictlyPreferred(pk.res.emitted[i], pk.res.suggestion)

=============================================================================
